---- MODULE Spec2Model ----
(***************************************************************************)
(* A model of the recommendation retrieval pipeline of mdc-agent:          *)
(*   src/src/api/v1/recommendations.py   the GET /v1/recommendations       *)
(*                                       endpoint                          *)
(*   src/src/services/azure_defender.py  the retry-wrapped service call,   *)
(*                                       filters, parser, paginator        *)
(*   src/src/middleware/error_handler.py the global exception handler      *)
(*   src/src/utils/validators.py         the response size guard           *)
(*                                                                         *)
(* Text the code computes on (identifiers, paths, filter strings) is a     *)
(* sequence of one-character strings; enumeration values and free text     *)
(* the code only copies are TLA+ strings.  An Optional value is a sequence *)
(* of length 0 (None) or 1.  A list parameter that is None and one that is *)
(* empty are both <<>>: the code tests them only for truthiness.           *)
(***************************************************************************)
EXTENDS Integers, Sequences, FiniteSets, TLC

(***************************************************************************)
(* Bounds of the model.                                                    *)
(***************************************************************************)
\* longest listing the provider returns to one list call
MaxRecords == 2
\* longest record list / item list handed to a pure function
MaxUnitLen == 3
\* largest offset of a pure pagination call
MaxUnitOffset == 5

\* longest key handed to to_snake_case
MaxKeyLen == 5
\* requests the server handles at once
NumTasks == 2
\* longest listing the provider returns to a request of the server
MaxServerRecords == 1

\* elements of a list and items of a dict given to transform_keys_to_snake_case
MaxItems == 2

\* nesting depth of the values given to transform_keys_to_snake_case
MaxDepth == 2

\* segments of the identifiers given to the _extract_ functions
MaxSegs == 3

(***************************************************************************)
(* Python helpers.                                                         *)
(***************************************************************************)
None == <<>>

Some(x) == <<x>>

IsNone(o) == Len(o) = 0

Min(a, b) == IF a <= b THEN a ELSE b

Max(a, b) == IF a >= b THEN a ELSE b

RECURSIVE Pow2(_)
Pow2(n) == IF n <= 0 THEN 1 ELSE 2 * Pow2(n - 1)

\* x in lst, for a list
InList(x, lst) == \E i \in DOMAIN lst : lst[i] = x

\* set(lst)
ToSet(lst) == {lst[i] : i \in DOMAIN lst}

\* needle in hay, for two strings
Contains(hay, needle) ==
    \E i \in 0..(Len(hay) - Len(needle)) :
        SubSeq(hay, i + 1, i + Len(needle)) = needle

\* s.split(sep) for a one-character separator
RECURSIVE SplitFrom(_, _, _, _)
SplitFrom(s, sep, i, cur) ==
    IF i > Len(s) THEN <<cur>>
    ELSE IF s[i] = sep THEN <<cur>> \o SplitFrom(s, sep, i + 1, <<>>)
    ELSE SplitFrom(s, sep, i + 1, Append(cur, s[i]))

Split(s, sep) == SplitFrom(s, sep, 1, <<>>)

\* lst.index(x): the first position (0-based) as Some, None for ValueError
Index(lst, x) ==
    IF InList(x, lst)
    THEN Some((CHOOSE i \in DOMAIN lst :
                  lst[i] = x /\ \A j \in 1..(i - 1) : lst[j] # x) - 1)
    ELSE None

\* lst[start:stop] with Python's clamping of a slice's ends
PySlice(lst, start, stop) ==
    LET n  == Len(lst)
        lo == IF start < 0 THEN Max(n + start, 0) ELSE Min(start, n)
        hi == IF stop < 0 THEN Max(n + stop, 0) ELSE Min(stop, n)
    IN  IF lo >= hi THEN <<>> ELSE SubSeq(lst, lo + 1, hi)

\* all sequences over S of length at most n
RECURSIVE SeqsUpTo(_, _)
SeqsUpTo(S, n) ==
    IF n = 0 THEN {<<>>}
    ELSE LET shorter == SeqsUpTo(S, n - 1)
         IN  shorter \cup {Append(s, x) : s \in {t \in shorter : Len(t) = n - 1}, x \in S}

(***************************************************************************)
(* Text used by the code and by the provider's records.                    *)
(***************************************************************************)
Slash == <<"/">>

SEG_subscriptions == <<"s","u","b","s","c","r","i","p","t","i","o","n","s">>

SEG_resourceGroups == <<"r","e","s","o","u","r","c","e","G","r","o","u","p","s">>

SEG_providers == <<"p","r","o","v","i","d","e","r","s">>

STR_Unknown == <<"U","n","k","n","o","w","n">>

\* the subscription the client is constructed for (AZURE_SUBSCRIPTION_ID)
SUB_ENV == <<"s","0">>

SUB_1 == <<"s","1">>

\* "12345678-1234-1234-1234-123456789012"
SUB_UUID ==
    <<"1","2","3","4","5","6","7","8","-","1","2","3","4","-","1","2","3","4","-",
      "1","2","3","4","-","1","2","3","4","5","6","7","8","9","0","1","2">>

RG_1 == <<"r","g","1">>

RG_10 == <<"r","g","1","0">>

NS_COMPUTE == <<"M","s",".","C","o","m","p","u","t","e">>

NS_STORAGE == <<"M","s",".","S","t","o","r","a","g","e">>

NS_SECURITY == <<"S","e","c">>

KIND_VMS == <<"v","m","s">>

KIND_ACCTS == <<"a","c","c","t","s">>

KIND_ASSESSMENTS == <<"a","s","m","t","s">>

Q_COMPUTE == <<"C","o","m","p","u","t","e">>

Q_COMPUTE_LC == <<"c","o","m","p","u","t","e">>

Q_MS == <<"M","s",".">>

\* "/".join(segments) with a leading slash
RECURSIVE Path(_)
Path(segs) == IF Len(segs) = 0 THEN <<>> ELSE Slash \o Head(segs) \o Path(Tail(segs))

RID_VM1 == Path(<<SEG_subscriptions, SUB_1, SEG_resourceGroups, RG_1,
                  SEG_providers, NS_COMPUTE, KIND_VMS, <<"v","m","1">> >>)

RID_SA1 == Path(<<SEG_subscriptions, SUB_1, SEG_resourceGroups, RG_10,
                  SEG_providers, NS_STORAGE, KIND_ACCTS, <<"s","a","1">> >>)

RID_SUB == Path(<<SEG_subscriptions, SUB_1>>)

AssessmentId(name) ==
    Path(<<SEG_subscriptions, SUB_1, SEG_providers, NS_SECURITY, KIND_ASSESSMENTS, name>>)

\* the id of an assessment of a subscription named by a UUID
AssessmentIdUuid(name) ==
    Path(<<SEG_subscriptions, SUB_UUID, SEG_providers, NS_SECURITY, KIND_ASSESSMENTS, name>>)

(***************************************************************************)
(* Provider records (assessments).  A field the provider object does not   *)
(* carry is a field the record does not have: hasattr(o, "f") is           *)
(* "f" \in DOMAIN o.                                                       *)
(***************************************************************************)
HasAttr(o, f) == f \in DOMAIN o

\* High, Unhealthy, a virtual machine in resource group rg1, explicit type
A_VM ==
    [id |-> AssessmentIdUuid(<<"a","1">>),
     properties |->
        [display_name |-> "Enable disk encryption",
         severity |-> "High",
         remediation_description |-> "Apply security controls",
         resource_details |-> [id |-> RID_VM1, resource_type |-> NS_COMPUTE \o Slash \o KIND_VMS],
         status |-> [code |-> "Unhealthy", description |-> "longer text"],
         additional_data |-> Some("CIS")]]

\* Low, Healthy, a storage account in resource group rg10, type derived
A_SA ==
    [id |-> AssessmentId(<<"a","2">>),
     properties |->
        [display_name |-> "Restrict network access",
         severity |-> "Low",
         resource_details |-> [id |-> RID_SA1],
         status |-> [code |-> "Healthy", description |-> "short text"],
         additional_data |-> None]]

\* no severity field, Unhealthy, a subscription-scoped resource, a long text
A_SUB ==
    [id |-> AssessmentId(<<"a","3">>),
     properties |->
        [display_name |-> "Enable MFA",
         resource_details |-> [id |-> RID_SUB],
         status |-> [code |-> "Unhealthy", description |-> "long text"]]]

\* Critical, NotApplicable, no resource details
A_NORES ==
    [id |-> AssessmentId(<<"a","4">>),
     properties |->
        [display_name |-> "Rotate keys",
         severity |-> "Critical",
         status |-> [code |-> "NotApplicable"]]]

\* Medium, no status
A_NOSTATUS ==
    [id |-> AssessmentId(<<"a","5">>),
     properties |->
        [display_name |-> "Patch system",
         severity |-> "Medium",
         resource_details |-> [id |-> RID_VM1]]]

\* the records the provider lists to the endpoint
Assessments == {A_VM, A_SUB}

\* the records handed to the filters alone
UnitAssessments == {A_VM, A_SA, A_SUB, A_NORES, A_NOSTATUS}

(***************************************************************************)
(* AzureDefenderClient: the filters, the paginator, the parser.            *)
(***************************************************************************)
FilterBySeverity(assessments, severities) ==
    SelectSeq(assessments,
        LAMBDA a : HasAttr(a.properties, "severity")
                   /\ InList(a.properties.severity, severities))

FilterByResourceType(assessments, resource_type) ==
    SelectSeq(assessments,
        LAMBDA a : HasAttr(a.properties, "resource_details")
                   /\ Contains(a.properties.resource_details.id, resource_type))

\* the fragment without its closing slash: rg1 also matches rg10
FilterByResourceGroupPrefix(assessments, resource_group) ==
    SelectSeq(assessments,
        LAMBDA a : HasAttr(a.properties, "resource_details")
                   /\ Contains(a.properties.resource_details.id,
                               Slash \o SEG_resourceGroups \o Slash \o resource_group))

FilterByResourceGroup(assessments, resource_group) ==
    SelectSeq(assessments,
        LAMBDA a : HasAttr(a.properties, "resource_details")
                   /\ Contains(a.properties.resource_details.id,
                               Slash \o SEG_resourceGroups \o Slash \o resource_group \o Slash))

FilterByAssessmentStatus(assessments, statuses) ==
    SelectSeq(assessments,
        LAMBDA a : HasAttr(a.properties, "status")
                   /\ InList(a.properties.status.code, statuses))

\* lines 109-117: each filter is applied only if its parameter is truthy
ApplyFilters(assessments, severity, resource_type, resource_group, assessment_status) ==
    LET s1 == IF Len(severity) > 0 THEN FilterBySeverity(assessments, severity)
              ELSE assessments
        s2 == IF Len(resource_type) > 0 THEN FilterByResourceType(s1, resource_type)
              ELSE s1
        s3 == IF Len(resource_group) > 0 THEN FilterByResourceGroup(s2, resource_group)
              ELSE s2
    IN  IF Len(assessment_status) > 0 THEN FilterByAssessmentStatus(s3, assessment_status)
        ELSE s3

\* the slice's end taken as the limit alone
ApplyPaginationStopAtLimit(items, limit, offset) == PySlice(items, offset, limit)

ApplyPagination(items, limit, offset) == PySlice(items, offset, offset + limit)

ExtractSubscriptionId(assessment_id, subscription_id) ==
    LET parts == Split(assessment_id, "/")
        sub_index == Index(parts, SEG_subscriptions)
    IN  IF IsNone(sub_index) \/ sub_index[1] + 2 > Len(parts) THEN subscription_id
        ELSE parts[sub_index[1] + 2]

ExtractResourceGroup(resource_id) ==
    LET parts == Split(resource_id, "/")
        rg_index == Index(parts, SEG_resourceGroups)
    IN  IF IsNone(rg_index) \/ rg_index[1] + 2 > Len(parts) THEN None
        ELSE Some(parts[rg_index[1] + 2])

ExtractResourceType(resource_id) ==
    LET parts == Split(resource_id, "/")
        providers_index == Index(parts, SEG_providers)
    IN  IF IsNone(providers_index) \/ providers_index[1] + 3 > Len(parts) THEN STR_Unknown
        ELSE parts[providers_index[1] + 2] \o Slash \o parts[providers_index[1] + 3]

ExtractResourceName(resource_id) ==
    LET parts == Split(resource_id, "/")
    IN  IF Len(parts) > 0 THEN parts[Len(parts)] ELSE STR_Unknown

ParseAssessment(assessment, subscription_id) ==
    LET properties == assessment.properties
        resource_details == properties.resource_details
    IN  [recommendation_id |-> assessment.id,
         severity |-> IF HasAttr(properties, "severity") THEN properties.severity
                      ELSE "Medium",
         title |-> properties.display_name,
         description |-> IF HasAttr(properties.status, "description")
                         THEN properties.status.description
                         ELSE "No description available",
         affected_resources |->
            <<[resource_id |-> resource_details.id,
               resource_type |-> IF HasAttr(resource_details, "resource_type")
                                 THEN resource_details.resource_type
                                 ELSE ExtractResourceType(resource_details.id),
               resource_name |-> ExtractResourceName(resource_details.id)]>>,
         remediation_steps |-> IF HasAttr(properties, "remediation_description")
                               THEN properties.remediation_description
                               ELSE "Check Azure Defender for Cloud for remediation steps",
         assessment_status |-> properties.status.code,
         compliance_standards |-> IF HasAttr(properties, "additional_data")
                                  THEN properties.additional_data
                                  ELSE None,
         assigned_user |-> None,
         due_date |-> None,
         grace_period_enabled |-> None,
         subscription_id |-> ExtractSubscriptionId(assessment.id, subscription_id),
         resource_group |-> ExtractResourceGroup(resource_details.id)]

\* _parse_assessment tabulated over the records and subscriptions explored
ParseTable ==
    [a \in UnitAssessments \ {A_NORES, A_NOSTATUS}, sub \in {SUB_ENV, SUB_1} |->
        ParseAssessment(a, sub)]

\* line 120: the list comprehension over the filtered records
ParseAll(assessments, subscription_id) ==
    [i \in DOMAIN assessments |-> ParseTable[assessments[i], subscription_id]]

\* the listing cut to the page first, then filtered and parsed
ServiceResultPaginateFirst(listing, severity, resource_type, resource_group, assessment_status, limit, offset, subscription_id) ==
    ParseAll(ApplyFilters(ApplyPagination(listing, limit, offset), severity, resource_type,
                          resource_group, assessment_status),
             subscription_id)

\* lines 109-123: what one successful provider listing is turned into
ServiceResult(listing, severity, resource_type, resource_group, assessment_status, limit, offset, subscription_id) ==
    ApplyPagination(
        ParseAll(ApplyFilters(listing, severity, resource_type, resource_group,
                              assessment_status),
                 subscription_id),
        limit, offset)

(***************************************************************************)
(* Exceptions.  cls is the Python class; status_code and retry_after are   *)
(* Optional (an HttpResponseError built without a response has             *)
(* status_code None); actual_size is set by ResponseTooLargeError.         *)
(***************************************************************************)
Exc(cls, status_code, retry_after, actual_size) ==
    [cls |-> cls, status_code |-> status_code, retry_after |-> retry_after,
     actual_size |-> actual_size]

\* ClientAuthenticationError and ResourceNotFoundError subclass HttpResponseError
IsHttpResponseError(exc) ==
    exc.cls \in {"HttpResponseError", "ClientAuthenticationError", "ResourceNotFoundError"}

E_403 == Exc("HttpResponseError", Some(403), None, 0)

E_401 == Exc("ClientAuthenticationError", Some(401), None, 0)

E_404 == Exc("ResourceNotFoundError", Some(404), None, 0)

E_429_RA == Exc("HttpResponseError", Some(429), Some("60"), 0)

E_429 == Exc("HttpResponseError", Some(429), None, 0)

E_503 == Exc("HttpResponseError", Some(503), None, 0)

E_500 == Exc("HttpResponseError", Some(500), None, 0)

\* HttpResponseError(message="Forbidden"): no response, status_code None
E_NOSTATUS == Exc("HttpResponseError", None, None, 0)

\* a failure of the transport that is no HttpResponseError
E_CONN == Exc("ServiceRequestError", None, None, 0)

\* what a provider list call can raise
ProviderErrors ==
    {E_403, E_401, E_404, E_429_RA, E_429, E_503, E_500, E_NOSTATUS, E_CONN}

(***************************************************************************)
(* validators.py: the size guard.  json.dumps is modelled by the byte      *)
(* count it yields: an envelope, a fixed part per recommendation and the   *)
(* length of its description.  Two descriptions of LongTextBytes fill the  *)
(* ceiling exactly.                                                        *)
(***************************************************************************)
\* the ceiling taken as 2MB
MAX_RESPONSE_SIZE_BYTES_DOUBLED == 2 * 1048576

MAX_RESPONSE_SIZE_BYTES == 1048576

EnvelopeBytes == 64

RecordBytes == 512

ShortTextBytes == 32

LongTextBytes == 523744

LongerTextBytes == 600000

TextBytes(text) ==
    IF text = "long text" THEN LongTextBytes
    ELSE IF text = "long text and one byte" THEN LongTextBytes + 1
    ELSE IF text = "longer text" THEN LongerTextBytes
    ELSE ShortTextBytes

RECURSIVE SumBytes(_)
SumBytes(recs) ==
    IF Len(recs) = 0 THEN 0
    ELSE RecordBytes + TextBytes(Head(recs).description) + SumBytes(Tail(recs))

\* len(json.dumps(data).encode("utf-8")): the default separators ", " and ": "
SerializedSize(data) == EnvelopeBytes + SumBytes(data.recommendations)

\* the keys of response_data and of a recommendation dictionary
ENVELOPE_KEYS == 4

RECORD_KEYS == 13

\* the spaces json.dumps' default separators put after the colon of every key
\* and after the comma between two keys of the envelope and of each record
PaddingBytes(data) ==
    (2 * ENVELOPE_KEYS - 1) + Len(data.recommendations) * (2 * RECORD_KEYS - 1)

\* JSONResponse.render: json.dumps(content, ensure_ascii=False,
\* separators=(",", ":")).encode("utf-8"), the body that is sent; an upper
\* bound, nested values and escaped characters only make the body shorter
RenderedSize(data) == SerializedSize(data) - PaddingBytes(data)

\* ResponseTooLargeError(actual_size): max_size defaults to the ceiling
ResponseTooLargeError(actual_size) ==
    [cls |-> "ResponseTooLargeError", status_code |-> None, retry_after |-> None,
     actual_size |-> actual_size, max_size |-> MAX_RESPONSE_SIZE_BYTES]

\* the comparison taken as >=: a payload of exactly the ceiling is refused
ValidateResponseSizeAtCeiling(data) ==
    LET size_bytes == SerializedSize(data)
    IN  IF size_bytes >= MAX_RESPONSE_SIZE_BYTES
        THEN Some(ResponseTooLargeError(size_bytes))
        ELSE None

\* validate_response_size: None when it returns, the exception when it raises
ValidateResponseSize(data) ==
    LET size_bytes == SerializedSize(data)
    IN  IF size_bytes > MAX_RESPONSE_SIZE_BYTES
        THEN Some(ResponseTooLargeError(size_bytes))
        ELSE None

(***************************************************************************)
(* azure_retry: tenacity's retry(...) as configured.                       *)
(***************************************************************************)
STOP_AFTER_ATTEMPT == 5

WAIT_MULTIPLIER == 1

WAIT_MIN == 1

WAIT_MAX == 60

\* retry=retry_if_exception_type(HttpResponseError)
RetryIf(exc) == IsHttpResponseError(exc)

\* stops one attempt late
StopAfterOneMore(attempt_number) == attempt_number > STOP_AFTER_ATTEMPT

\* stop=stop_after_attempt(5)
Stop(attempt_number) == attempt_number >= STOP_AFTER_ATTEMPT

\* the exponent taken as the attempt number: 2, 4, 8, 16
WaitExponentialFromTwo(attempt_number) ==
    Max(Max(0, WAIT_MIN), Min(WAIT_MULTIPLIER * Pow2(attempt_number), WAIT_MAX))

\* wait=wait_exponential(multiplier=1, min=1, max=60), after attempt n
WaitExponential(attempt_number) ==
    Max(Max(0, WAIT_MIN), Min(WAIT_MULTIPLIER * Pow2(attempt_number - 1), WAIT_MAX))

\* reraise=True: on stop the last attempt's exception is raised as it is
RaisedOnStop(exc) == exc

(***************************************************************************)
(* The two error classifiers.                                              *)
(***************************************************************************)
Response(status_code, content) == [status_code |-> status_code, content |-> content]

ErrorContent(error_code, message, details) ==
    [error_code |-> error_code, message |-> message, details |-> details]

\* the map without its 404 entry
ErrorCodeMapNo404(http_status) ==
    IF http_status = Some(403) THEN "PERMISSION_DENIED"
    ELSE IF http_status = Some(429) THEN "RATE_LIMIT_EXCEEDED"
    ELSE IF http_status = Some(401) THEN "AUTHENTICATION_FAILED"
    ELSE IF http_status = Some(500) THEN "INTERNAL_SERVER_ERROR"
    ELSE "AZURE_API_ERROR"

\* recommendations.py, except HttpResponseError
ErrorCodeMap(http_status) ==
    IF http_status = Some(403) THEN "PERMISSION_DENIED"
    ELSE IF http_status = Some(429) THEN "RATE_LIMIT_EXCEEDED"
    ELSE IF http_status = Some(401) THEN "AUTHENTICATION_FAILED"
    ELSE IF http_status = Some(404) THEN "RESOURCE_NOT_FOUND"
    ELSE IF http_status = Some(500) THEN "INTERNAL_SERVER_ERROR"
    ELSE "AZURE_API_ERROR"

\* getattr(e, "status_code", 500): the attribute exists on every
\* HttpResponseError, so the default is not used and None comes through
LocalErrorResponse(e) ==
    LET http_status == e.status_code
    IN  Response(http_status,
                 ErrorContent(ErrorCodeMap(http_status), "str(e)",
                              [status_code |-> http_status]))

\* error_handler.py, handle_exception
HandleExceptionResponse(exc) ==
    IF exc.cls = "ClientAuthenticationError"
    THEN Response(Some(401), ErrorContent("AUTHENTICATION_FAILED",
                  "Azure authentication failed. Check credentials.", [error |-> "str(exc)"]))
    ELSE IF exc.cls = "ResourceNotFoundError"
    THEN Response(Some(404), ErrorContent("RESOURCE_NOT_FOUND",
                  "The requested Azure resource was not found.", [error |-> "str(exc)"]))
    ELSE IF IsHttpResponseError(exc)
    THEN LET status_code == IF IsNone(exc.status_code) THEN 500 ELSE exc.status_code[1]
         IN  IF status_code = 429
             THEN Response(Some(429), ErrorContent("RATE_LIMIT_EXCEEDED",
                      "Azure API rate limit exceeded. Retry with exponential backoff.",
                      IF IsNone(exc.retry_after) THEN None
                      ELSE [retry_after |-> exc.retry_after[1]]))
             ELSE IF status_code = 403
             THEN Response(Some(403), ErrorContent("PERMISSION_DENIED",
                      "Insufficient permissions to perform this operation.",
                      [error |-> "str(exc)"]))
             ELSE Response(Some(status_code), ErrorContent("AZURE_API_ERROR",
                      "Azure API error", [status_code |-> status_code]))
    ELSE IF exc.cls = "ResponseTooLargeError"
    THEN Response(Some(413), ErrorContent("RESPONSE_TOO_LARGE", "str(exc)",
                  [actual_size_bytes |-> exc.actual_size,
                   max_size_bytes |-> exc.max_size]))
    ELSE IF exc.cls = "ValueError"
    THEN Response(Some(422), ErrorContent("VALIDATION_ERROR", "str(exc)", None))
    ELSE Response(Some(500), ErrorContent("INTERNAL_SERVER_ERROR",
                  "An unexpected error occurred. Please try again.", None))

(***************************************************************************)
(* models/recommendation.py: the constraints of the Recommendation model.  *)
(***************************************************************************)
HEX_DIGITS ==
    {"0","1","2","3","4","5","6","7","8","9",
     "a","b","c","d","e","f","A","B","C","D","E","F"}

\* ^[0-9a-fA-F]{8}-[0-9a-fA-F]{4}-[0-9a-fA-F]{4}-[0-9a-fA-F]{4}-[0-9a-fA-F]{12}$
MatchesUuidPattern(text) ==
    /\ Len(text) = 36
    /\ \A i \in 1..36 :
        IF i \in {9, 14, 19, 24} THEN text[i] = "-" ELSE text[i] \in HEX_DIGITS

\* what Recommendation(**rec) accepts, for the four constrained fields
RecommendationValid(rec) ==
    /\ rec.severity \in {"Critical", "High", "Medium", "Low"}
    /\ Len(rec.affected_resources) >= 1
    /\ rec.assessment_status \in {"Healthy", "Unhealthy", "NotApplicable"}
    /\ MatchesUuidPattern(rec.subscription_id)

(***************************************************************************)
(* transformers.py: to_snake_case.  The character classes of its two       *)
(* regular expressions, re.sub as a scan from the left over non-overlapping *)
(* matches, and str.lower.                                                 *)
(***************************************************************************)
ASCII_UPPERCASE ==
    <<"A","B","C","D","E","F","G","H","I","J","K","L","M",
      "N","O","P","Q","R","S","T","U","V","W","X","Y","Z">>

ASCII_LOWERCASE ==
    <<"a","b","c","d","e","f","g","h","i","j","k","l","m",
      "n","o","p","q","r","s","t","u","v","w","x","y","z">>

DIGITS == {"0","1","2","3","4","5","6","7","8","9"}

\* [A-Z]
IsUpper(c) == \E i \in DOMAIN ASCII_UPPERCASE : ASCII_UPPERCASE[i] = c

\* [a-z]
IsLower(c) == \E i \in DOMAIN ASCII_LOWERCASE : ASCII_LOWERCASE[i] = c

\* [a-z0-9]
IsLowerOrDigit(c) == IsLower(c) \/ c \in DIGITS

\* str.lower, one character
LowerChar(c) ==
    IF IsUpper(c)
    THEN ASCII_LOWERCASE[CHOOSE i \in DOMAIN ASCII_UPPERCASE : ASCII_UPPERCASE[i] = c]
    ELSE c

\* str.lower
Lower(text) == [i \in DOMAIN text |-> LowerChar(text[i])]

\* the end of the run of [a-z] that starts at i (greedy +)
RECURSIVE LowerRunEnd(_, _)
LowerRunEnd(text, i) ==
    IF i + 1 <= Len(text) /\ IsLower(text[i + 1]) THEN LowerRunEnd(text, i + 1) ELSE i

\* re.sub("(.)([A-Z][a-z]+)", r"\1_\2", text), scanning from position i
RECURSIVE SubBeforeWord(_, _)
SubBeforeWord(text, i) ==
    IF i > Len(text) THEN <<>>
    ELSE IF /\ i + 2 <= Len(text)
            /\ text[i] # "\n"
            /\ IsUpper(text[i + 1])
            /\ IsLower(text[i + 2])
    THEN LET j == LowerRunEnd(text, i + 2)
         IN  <<text[i], "_">> \o SubSeq(text, i + 1, j) \o SubBeforeWord(text, j + 1)
    ELSE <<text[i]>> \o SubBeforeWord(text, i + 1)

\* the class [a-z0-9] taken as [a-z]: no underscore after a digit
RECURSIVE SubBeforeUpperAfterLetter(_, _)
SubBeforeUpperAfterLetter(text, i) ==
    IF i > Len(text) THEN <<>>
    ELSE IF i + 1 <= Len(text) /\ IsLower(text[i]) /\ IsUpper(text[i + 1])
    THEN <<text[i], "_", text[i + 1]>> \o SubBeforeUpperAfterLetter(text, i + 2)
    ELSE <<text[i]>> \o SubBeforeUpperAfterLetter(text, i + 1)

\* re.sub("([a-z0-9])([A-Z])", r"\1_\2", text), scanning from position i
RECURSIVE SubBeforeUpper(_, _)
SubBeforeUpper(text, i) ==
    IF i > Len(text) THEN <<>>
    ELSE IF i + 1 <= Len(text) /\ IsLowerOrDigit(text[i]) /\ IsUpper(text[i + 1])
    THEN <<text[i], "_", text[i + 1]>> \o SubBeforeUpper(text, i + 2)
    ELSE <<text[i]>> \o SubBeforeUpper(text, i + 1)

\* the final text.lower() left out
ToSnakeCaseNotLowered(text) == SubBeforeUpper(SubBeforeWord(text, 1), 1)

ToSnakeCase(text) == Lower(SubBeforeUpper(SubBeforeWord(text, 1), 1))

\* Python values: a primitive, a list by its elements, a dict by its items in
\* insertion order, each item a pair of a key and a value; a key is a str
\* ([str |-> text]) or an int ([int |-> n])
Prim(v) == [t |-> "prim", v |-> v]

PyList(elems) == [t |-> "list", elems |-> elems]

PyDict(items) == [t |-> "dict", items |-> items]

StrKey(text) == [str |-> text]

IntKey(n) == [int |-> n]

IsStr(key) == "str" \in DOMAIN key

\* re.sub raises TypeError for an argument that is no string
TypeError == [raised |-> "TypeError"]

IsRaised(r) == "raised" \in DOMAIN r

\* d[key] = value: a key already in the dict keeps its place and takes the value
SetItem(items, key, value) ==
    IF \E i \in DOMAIN items : items[i][1] = key
    THEN [i \in DOMAIN items |-> IF items[i][1] = key THEN <<key, value>> ELSE items[i]]
    ELSE Append(items, <<key, value>>)

\* the comprehensions of lines 55-59, an exception ending the evaluation
RECURSIVE TransformKeysToSnakeCase(_), TransformItems(_, _), TransformElems(_, _)
TransformItems(items, acc) ==
    IF Len(items) = 0 THEN PyDict(acc)
    ELSE LET key == Head(items)[1]
             value == Head(items)[2]
         IN  IF ~IsStr(key) THEN TypeError
             ELSE LET v == TransformKeysToSnakeCase(value)
                  IN  IF IsRaised(v) THEN v
                      ELSE TransformItems(Tail(items),
                                          SetItem(acc, StrKey(ToSnakeCase(key.str)), v))

TransformElems(elems, acc) ==
    IF Len(elems) = 0 THEN PyList(acc)
    ELSE LET v == TransformKeysToSnakeCase(Head(elems))
         IN  IF IsRaised(v) THEN v ELSE TransformElems(Tail(elems), Append(acc, v))

TransformKeysToSnakeCase(data) ==
    IF data.t = "dict" THEN TransformItems(data.items, <<>>)
    ELSE IF data.t = "list" THEN TransformElems(data.elems, <<>>)
    ELSE data

(***************************************************************************)
(* State.                                                                  *)
(***************************************************************************)
VARIABLES
    env_subscription_id, \* os.getenv("AZURE_SUBSCRIPTION_ID"), Optional
    req,                 \* the query parameters of the request
    pc,                  \* where the handler of the request is
    client,              \* the AzureDefenderClient's subscription_id, Optional
    fetch,               \* which service call is running: "page" or "count"
    attempt,             \* retry.statistics: attempt_number of the latest call
    sleeps,              \* retry.statistics: the backoff waits of the latest call
    outcome,             \* retry_state.outcome: the exception of the attempt, Optional
    calls,               \* client.assessments.list calls issued so far
    failed,              \* those of them that raised
    listed,              \* line 107: the listing the count fetch was given, Optional
    page_listed,         \* line 107: the listing the page fetch was given, Optional
    recommendations,     \* line 154: the page
    exc,                 \* the exception propagating out of the handler, Optional
    response,            \* the JSONResponse sent, Optional
    call,                \* a direct call of one function of the service
    ret,                 \* what that call returned, Optional
    tasks,               \* the requests the server is handling, one record each
    loop,                \* the request whose coroutine the event loop runs, Optional
    statistics           \* azure_retry.statistics, shared by all calls

vars == <<env_subscription_id, req, pc, client, fetch, attempt, sleeps, outcome, calls, failed,
          listed, page_listed, recommendations, exc, response, call, ret,
          tasks, loop, statistics>>

servervars == <<tasks, loop, statistics>>

reqvars == <<env_subscription_id, req, call, ret, servervars>>

(***************************************************************************)
(* The requests and provider answers explored.                             *)
(***************************************************************************)
VALID_SEVERITIES == {"Critical", "High", "Medium", "Low"}

VALID_STATUSES == {"Healthy", "Unhealthy", "NotApplicable"}

LIMIT_MAX == 1000

COUNT_LIMIT == 999999

SeverityParams == {<<>>, <<"High", "Low">>, <<"High", "InvalidLevel">>}

ResourceTypeParams == {<<>>, Q_COMPUTE}

ResourceGroupParams == {<<>>, RG_1}

AssessmentStatusParams == {<<>>, <<"Unhealthy">>, <<"Bogus">>}

AssignmentStatusParams == {"all", "assigned"}

Limits == {1, LIMIT_MAX}

Offsets == {0, 1}

Requests ==
    [subscription_id : {None},
     severity : SeverityParams,
     resource_type : ResourceTypeParams,
     resource_group : ResourceGroupParams,
     assignment_status : AssignmentStatusParams,
     assessment_status : AssessmentStatusParams,
     limit : Limits,
     offset : Offsets]

Listings == SeqsUpTo(Assessments, MaxRecords)

NoCall == [op |-> "none"]

\* retry.statistics before any call
NoStatistics == [attempt_number |-> 0]

(***************************************************************************)
(* GET /v1/recommendations, one request.                                   *)
(***************************************************************************)
Init ==
    /\ env_subscription_id \in {None, Some(SUB_ENV)}
    /\ req \in Requests
    /\ pc = "validate"
    /\ client = None
    /\ fetch = "page"
    /\ attempt = 1
    /\ sleeps = <<>>
    /\ outcome = None
    /\ calls = 0
    /\ failed = 0
    /\ listed = None
    /\ page_listed = None
    /\ recommendations = <<>>
    /\ exc = None
    /\ response = None
    /\ call = NoCall
    /\ ret = None
    /\ tasks = <<>>
    /\ loop = None
    /\ statistics = NoStatistics

ValidationError(message, parameter, invalid, valid) ==
    Response(Some(400),
             ErrorContent("VALIDATION_ERROR", message,
                          [parameter |-> parameter, provided_value |-> invalid,
                           valid_values |-> valid]))

\* only the severity values are checked
ValidationFailureSeverityOnly(severity, assessment_status) ==
    LET invalid_severities == ToSet(severity) \ VALID_SEVERITIES
    IN  IF Len(severity) > 0 /\ invalid_severities # {}
        THEN Some(ValidationError("Invalid severity value", "severity",
                                  invalid_severities, VALID_SEVERITIES))
        ELSE None

\* recommendations.py lines 113-147: the 400 response, None when both checks pass
ValidationFailure(severity, assessment_status) ==
    LET invalid_severities == ToSet(severity) \ VALID_SEVERITIES
        invalid_statuses == ToSet(assessment_status) \ VALID_STATUSES
    IN  IF Len(severity) > 0 /\ invalid_severities # {}
        THEN Some(ValidationError("Invalid severity value", "severity",
                                  invalid_severities, VALID_SEVERITIES))
        ELSE IF Len(assessment_status) > 0 /\ invalid_statuses # {}
        THEN Some(ValidationError("Invalid assessment_status value", "assessment_status",
                                  invalid_statuses, VALID_STATUSES))
        ELSE None

ValidateRequest ==
    /\ pc = "validate"
    /\ \E failure \in {ValidationFailure(req.severity, req.assessment_status)} :
        IF IsNone(failure)
        THEN /\ pc' = "get_client"
             /\ response' = response
        ELSE /\ response' = failure
             /\ pc' = "responded"
    /\ UNCHANGED <<reqvars, client, fetch, attempt, sleeps, outcome, calls, failed, listed, page_listed,
                   recommendations, exc>>

\* line 151, AzureDefenderClient.__init__ lines 59-67
GetAzureDefenderClient ==
    /\ pc = "get_client"
    /\ LET sub_id == IF ~IsNone(req.subscription_id) /\ Len(req.subscription_id[1]) > 0
                     THEN req.subscription_id
                     ELSE env_subscription_id
       IN  IF IsNone(sub_id) \/ Len(sub_id[1]) = 0
           THEN /\ exc' = Some(Exc("ValueError", None, None, 0))
                /\ pc' = "raised"
                /\ UNCHANGED <<client, fetch, attempt, sleeps, outcome>>
           ELSE /\ client' = sub_id
                /\ fetch' = "page"
                /\ attempt' = 1
                /\ sleeps' = <<>>
                /\ outcome' = None
                /\ pc' = "call"
                /\ exc' = exc
    /\ UNCHANGED <<reqvars, calls, failed, listed, page_listed, recommendations, response>>

\* the count fetch given the page's limit
FetchLimitOfPage == req.limit

\* the limit and offset the endpoint passes to the running service call
FetchLimit == IF fetch = "page" THEN req.limit ELSE COUNT_LIMIT

\* a request for another assignment status than "all" is given nothing: no
\* record has an assignee
FetchOffsetPastUnassigned ==
    IF req.assignment_status # "all" THEN COUNT_LIMIT
    ELSE IF fetch = "page" THEN req.offset ELSE 0

FetchOffset == IF fetch = "page" THEN req.offset ELSE 0

\* an attempt of the page fetch in which the provider answers:
\* azure_defender.py lines 102-123, then line 154 of the endpoint
PageFetchReturns ==
    /\ pc = "call"
    /\ fetch = "page"
    /\ \E listing \in Listings :
        /\ page_listed' = Some(listing)
        /\ recommendations' = ServiceResult(listing, req.severity, req.resource_type,
                                            req.resource_group, req.assessment_status,
                                            FetchLimit, FetchOffset, client[1])
    /\ calls' = calls + 1
    /\ failed' = failed
    /\ fetch' = "count"
    /\ attempt' = 1
    /\ sleeps' = <<>>
    /\ outcome' = None
    /\ UNCHANGED <<reqvars, pc, client, listed, exc, response>>

\* an attempt of the count fetch in which the provider answers:
\* azure_defender.py lines 102-123, then lines 167-189 of the endpoint
CountFetchReturns ==
    /\ pc = "call"
    /\ fetch = "count"
    /\ \E listing \in Listings :
        \E result \in {ServiceResult(listing, req.severity, req.resource_type,
                                     req.resource_group, req.assessment_status,
                                     FetchLimit, FetchOffset, client[1])} :
            \E response_data \in {[recommendations |-> recommendations,
                                   total_count |-> Len(result),
                                   limit |-> req.limit,
                                   offset |-> req.offset]} :
                \E too_large \in {ValidateResponseSize(response_data)} :
                    /\ listed' = Some(listing)
                    /\ IF IsNone(too_large)
                       THEN /\ response' = Some(Response(Some(200), response_data))
                            /\ pc' = "responded"
                            /\ exc' = exc
                       ELSE /\ exc' = too_large
                            /\ pc' = "raised"
                            /\ response' = response
    /\ calls' = calls + 1
    /\ failed' = failed
    /\ UNCHANGED <<reqvars, client, fetch, attempt, sleeps, outcome, page_listed,
                   recommendations>>

\* one attempt in which the provider raises and tenacity decides to retry:
\* before_sleep, then sleep
AttemptFailsRetry ==
    /\ pc = "call"
    /\ \E e \in ProviderErrors :
        /\ RetryIf(e)
        /\ ~Stop(attempt)
        /\ outcome' = Some(e)
        /\ sleeps' = Append(sleeps, WaitExponential(attempt))
    /\ pc' = "sleep"
    /\ calls' = calls + 1
    /\ failed' = failed + 1
    /\ UNCHANGED <<reqvars, client, fetch, attempt, listed, page_listed, recommendations, exc, response>>

\* the exception tenacity raises is swallowed and the endpoint goes on to the
\* count fetch
AttemptFailsGoesOn ==
    /\ pc = "call"
    /\ \E e \in ProviderErrors : ~RetryIf(e) \/ Stop(attempt)
    /\ fetch' = "count"
    /\ attempt' = 1
    /\ sleeps' = <<>>
    /\ outcome' = None
    /\ calls' = calls + 1
    /\ failed' = failed + 1
    /\ UNCHANGED <<reqvars, pc, client, listed, page_listed, recommendations, exc, response>>

\* one attempt in which the provider raises and tenacity gives up: the exception
\* is not one to retry, or the attempts are used up
AttemptFailsRaise ==
    /\ pc = "call"
    /\ \E e \in ProviderErrors :
        /\ ~RetryIf(e) \/ Stop(attempt)
        /\ outcome' = Some(e)
        /\ exc' = Some(IF RetryIf(e) THEN RaisedOnStop(e) ELSE e)
    /\ pc' = "raised"
    /\ calls' = calls + 1
    /\ failed' = failed + 1
    /\ UNCHANGED <<reqvars, client, fetch, attempt, sleeps, listed, page_listed, recommendations, response>>

\* the backoff sleep ends and the next attempt starts
\* (retry_state.prepare_for_next_attempt)
BackoffElapses ==
    /\ pc = "sleep"
    /\ attempt' = attempt + 1
    /\ outcome' = None
    /\ pc' = "call"
    /\ UNCHANGED <<reqvars, client, fetch, sleeps, calls, failed, listed, page_listed, recommendations, exc, response>>

\* lines 191-216: except HttpResponseError
HandleHttpResponseError ==
    /\ pc = "raised"
    /\ IsHttpResponseError(exc[1])
    /\ response' = Some(LocalErrorResponse(exc[1]))
    /\ pc' = "responded"
    /\ UNCHANGED <<reqvars, client, fetch, attempt, sleeps, outcome, calls, failed, listed, page_listed,
                   recommendations, exc>>

\* no handler registered for the exception: it is never answered
HandleExceptionNotRegistered ==
    /\ pc = "raised"
    /\ ~IsHttpResponseError(exc[1])
    /\ UNCHANGED vars

\* main.py line 77: any other exception reaches the global handler
HandleException ==
    /\ pc = "raised"
    /\ ~IsHttpResponseError(exc[1])
    /\ response' = Some(HandleExceptionResponse(exc[1]))
    /\ pc' = "responded"
    /\ UNCHANGED <<reqvars, client, fetch, attempt, sleeps, outcome, calls, failed, listed, page_listed,
                   recommendations, exc>>

Next ==
    \/ ValidateRequest
    \/ GetAzureDefenderClient
    \/ PageFetchReturns
    \/ CountFetchReturns
    \/ AttemptFailsRetry
    \/ AttemptFailsRaise
    \/ BackoffElapses
    \/ HandleHttpResponseError
    \/ HandleException

Spec == Init /\ [][Next]_vars

\* the request with its progress: a provider call returns or raises, a backoff
\* sleep ends, and the interpreter runs the handler's next statement
SpecLive == Init /\ [][Next]_vars /\ WF_vars(Next)

(***************************************************************************)
(* Direct calls of the service's pure functions, one call per behaviour.   *)
(***************************************************************************)
UnitSeverityParams == {<<>>, <<"High">>, <<"High", "Low">>, <<"Medium">>}

UnitResourceTypeParams == {<<>>, Q_COMPUTE, Q_COMPUTE_LC, Q_MS}

UnitAssessmentStatusParams == {<<>>, <<"Unhealthy">>, <<"Healthy", "Unhealthy">>}

FilterCalls ==
    [op : {"filters"},
     assessments : SeqsUpTo(UnitAssessments, MaxUnitLen),
     severity : UnitSeverityParams,
     resource_type : UnitResourceTypeParams,
     resource_group : ResourceGroupParams,
     assessment_status : UnitAssessmentStatusParams]

PaginationCalls ==
    [op : {"_apply_pagination"},
     items : SeqsUpTo(1..MaxUnitLen, MaxUnitLen),
     limit : (1..(MaxUnitLen + 1)) \cup {LIMIT_MAX, COUNT_LIMIT},
     offset : 0..MaxUnitOffset]

\* recommendations of a short, a ceiling-filling and a one-byte-longer description
SizedRecords ==
    {ParseTable[A_SA, SUB_1], ParseTable[A_SUB, SUB_1],
     [ParseTable[A_SUB, SUB_1] EXCEPT !.description = "long text and one byte"]}

SizeCalls ==
    {[op |-> "validate_response_size",
      data |-> [recommendations |-> recs, total_count |-> Len(recs),
                limit |-> 100, offset |-> 0]] : recs \in SeqsUpTo(SizedRecords, MaxUnitLen)}

KeyChars == {"a", "B", "_", "1", "-"}

SnakeCaseCalls == [op : {"to_snake_case"}, text : SeqsUpTo(KeyChars, MaxKeyLen)]

\* a category of exception carrying a status code that is not its usual one
E_AUTH_403 == Exc("ClientAuthenticationError", Some(403), None, 0)

E_NOTFOUND_429 == Exc("ResourceNotFoundError", Some(429), Some("60"), 0)

E_VALUE == Exc("ValueError", None, None, 0)

HandlerExceptions ==
    ProviderErrors \cup
    {E_AUTH_403, E_NOTFOUND_429, E_VALUE, ResponseTooLargeError(MAX_RESPONSE_SIZE_BYTES + 1)}

HandlerCalls == [op : {"handle_exception"}, exc : HandlerExceptions]

IdSegments == {<<>>, SEG_subscriptions, SUB_1, SEG_providers}

IdPaths == {Path(segs) : segs \in SeqsUpTo(IdSegments, MaxSegs)}

ExtractSubscriptionCalls ==
    [op : {"_extract_subscription_id"}, assessment_id : IdPaths, subscription_id : {SUB_ENV}]

ExtractNameCalls == [op : {"_extract_resource_name"}, resource_id : IdPaths]

TransformKeySet == {StrKey(<<"a", "B">>), StrKey(<<"a", "_", "b">>), IntKey(1)}

TransformPrims == {Prim("ResourceId"), Prim("42")}

\* the items of a dict: no key twice
ItemsUpTo(V, n) ==
    {it \in SeqsUpTo(TransformKeySet \X V, n) :
        \A i, j \in DOMAIN it : i # j => it[i][1] # it[j][1]}

\* values nested d deep; a container of containers holds one of them
RECURSIVE Values(_)
Values(d) ==
    IF d = 0 THEN TransformPrims
    ELSE LET inner == Values(d - 1)
             n == IF d = 1 THEN MaxItems ELSE 1
         IN  inner \cup {PyList(e) : e \in SeqsUpTo(inner, n)}
                   \cup {PyDict(it) : it \in ItemsUpTo(inner, n)}

TransformCalls == [op : {"transform_keys_to_snake_case"}, data : Values(MaxDepth)]

DefaultRequest ==
    [subscription_id |-> None, severity |-> <<>>, resource_type |-> <<>>,
     resource_group |-> <<>>, assignment_status |-> "all", assessment_status |-> <<>>,
     limit |-> 100, offset |-> 0]

UnitInit ==
    /\ env_subscription_id = Some(SUB_ENV)
    /\ req = DefaultRequest
    /\ pc = "idle"
    /\ client = None
    /\ fetch = "page"
    /\ attempt = 1
    /\ sleeps = <<>>
    /\ outcome = None
    /\ calls = 0
    /\ failed = 0
    /\ listed = None
    /\ page_listed = None
    /\ recommendations = <<>>
    /\ exc = None
    /\ response = None
    /\ call \in FilterCalls \cup PaginationCalls \cup SizeCalls \cup SnakeCaseCalls
                \cup HandlerCalls \cup ExtractSubscriptionCalls \cup ExtractNameCalls
                \cup TransformCalls
    /\ ret = None
    /\ tasks = <<>>
    /\ loop = None
    /\ statistics = NoStatistics

mainvars == <<env_subscription_id, req, pc, client, fetch, attempt, sleeps, outcome, calls, failed,
              listed, page_listed, recommendations, exc, response, servervars>>

\* azure_defender.py lines 109-117 on the given records
CallApplyFilters ==
    /\ call.op = "filters"
    /\ IsNone(ret)
    /\ ret' = Some(ApplyFilters(call.assessments, call.severity, call.resource_type,
                                call.resource_group, call.assessment_status))
    /\ UNCHANGED <<mainvars, call>>

CallApplyPagination ==
    /\ call.op = "_apply_pagination"
    /\ IsNone(ret)
    /\ ret' = Some(ApplyPagination(call.items, call.limit, call.offset))
    /\ UNCHANGED <<mainvars, call>>

\* ret holds what the call gave: None when it returned, the exception it raised
CallValidateResponseSize ==
    /\ call.op = "validate_response_size"
    /\ IsNone(ret)
    /\ ret' = Some(ValidateResponseSize(call.data))
    /\ UNCHANGED <<mainvars, call>>

CallToSnakeCase ==
    /\ call.op = "to_snake_case"
    /\ IsNone(ret)
    /\ ret' = Some(ToSnakeCase(call.text))
    /\ UNCHANGED <<mainvars, call>>

CallHandleException ==
    /\ call.op = "handle_exception"
    /\ IsNone(ret)
    /\ ret' = Some(HandleExceptionResponse(call.exc))
    /\ UNCHANGED <<mainvars, call>>

CallExtractSubscriptionId ==
    /\ call.op = "_extract_subscription_id"
    /\ IsNone(ret)
    /\ ret' = Some(ExtractSubscriptionId(call.assessment_id, call.subscription_id))
    /\ UNCHANGED <<mainvars, call>>

CallExtractResourceName ==
    /\ call.op = "_extract_resource_name"
    /\ IsNone(ret)
    /\ ret' = Some(ExtractResourceName(call.resource_id))
    /\ UNCHANGED <<mainvars, call>>

\* ret holds the value returned, or the exception raised
CallTransformKeysToSnakeCase ==
    /\ call.op = "transform_keys_to_snake_case"
    /\ IsNone(ret)
    /\ ret' = Some(TransformKeysToSnakeCase(call.data))
    /\ UNCHANGED <<mainvars, call>>

UnitNext ==
    \/ CallApplyFilters
    \/ CallApplyPagination
    \/ CallValidateResponseSize
    \/ CallToSnakeCase
    \/ CallHandleException
    \/ CallExtractSubscriptionId
    \/ CallExtractResourceName
    \/ CallTransformKeysToSnakeCase

SpecUnit == UnitInit /\ [][UnitNext]_vars

(***************************************************************************)
(* The server: main.py runs one uvicorn process, so one event loop.        *)
(* list_recommendations is an async def without an await: once the loop    *)
(* runs the coroutine of a request it runs nothing else until the handler  *)
(* returns, and tenacity's time.sleep between attempts is spent on the     *)
(* loop's thread.  A request is a record of the handler's locals.          *)
(***************************************************************************)
TaskIds == 1..NumTasks

ServerRequests ==
    {[DefaultRequest EXCEPT !.subscription_id = sub, !.severity = sev, !.limit = 1] :
        sub \in {None, Some(SUB_1)},
        sev \in {<<>>, <<"High", "Low">>, <<"High", "InvalidLevel">>}}

ServerListings == SeqsUpTo(Assessments, MaxServerRecords)

ServerErrors == {E_429, E_CONN}

InitTask(r) ==
    [req |-> r, pc |-> "pending", client |-> None, fetch |-> "page", attempt |-> 1,
     page_listed |-> None, listed |-> None, recommendations |-> <<>>, exc |-> None,
     response |-> None]

ServerInit ==
    /\ env_subscription_id = Some(SUB_ENV)
    /\ req = DefaultRequest
    /\ pc = "idle"
    /\ client = None
    /\ fetch = "page"
    /\ attempt = 1
    /\ sleeps = <<>>
    /\ outcome = None
    /\ calls = 0
    /\ failed = 0
    /\ listed = None
    /\ page_listed = None
    /\ recommendations = <<>>
    /\ exc = None
    /\ response = None
    /\ call = NoCall
    /\ ret = None
    /\ tasks \in [TaskIds -> {InitTask(r) : r \in ServerRequests}]
    /\ loop = None
    /\ statistics = NoStatistics

singlevars == <<env_subscription_id, req, pc, client, fetch, attempt, sleeps, outcome, calls, failed,
                listed, page_listed, recommendations, exc, response, call, ret>>

\* every request is given the client of the first request that built one
TaskClientShared(i) ==
    IF \E j \in TaskIds : j # i /\ ~IsNone(tasks[j].client)
    THEN tasks[CHOOSE j \in TaskIds : j # i /\ ~IsNone(tasks[j].client)].client
    ELSE IF ~IsNone(tasks[i].req.subscription_id) /\ Len(tasks[i].req.subscription_id[1]) > 0
    THEN tasks[i].req.subscription_id
    ELSE env_subscription_id

\* get_azure_defender_client: a new AzureDefenderClient for every request,
\* subscription_id or os.getenv("AZURE_SUBSCRIPTION_ID")
TaskClient(i) ==
    IF ~IsNone(tasks[i].req.subscription_id) /\ Len(tasks[i].req.subscription_id[1]) > 0
    THEN tasks[i].req.subscription_id
    ELSE env_subscription_id

\* the response to an exception leaving the try block
ClassifiedResponse(e) ==
    IF IsHttpResponseError(e) THEN LocalErrorResponse(e) ELSE HandleExceptionResponse(e)

\* the loop starts the coroutine of a waiting request: lines 113-151
TaskStarts(i) ==
    /\ IsNone(loop)
    /\ tasks[i].pc = "pending"
    /\ \E failure \in {ValidationFailure(tasks[i].req.severity,
                                          tasks[i].req.assessment_status)} :
        \E sub_id \in {TaskClient(i)} :
            IF ~IsNone(failure)
            THEN /\ tasks' = [tasks EXCEPT ![i].pc = "responded", ![i].response = failure]
                 /\ loop' = None
            ELSE IF IsNone(sub_id) \/ Len(sub_id[1]) = 0
            THEN /\ tasks' = [tasks EXCEPT
                        ![i].pc = "responded",
                        ![i].exc = Some(Exc("ValueError", None, None, 0)),
                        ![i].response =
                            Some(ClassifiedResponse(Exc("ValueError", None, None, 0)))]
                 /\ loop' = None
            ELSE /\ tasks' = [tasks EXCEPT ![i].pc = "call", ![i].client = sub_id]
                 /\ loop' = Some(i)
    /\ UNCHANGED <<statistics, singlevars>>

\* an attempt of the running request in which the provider answers
TaskCallReturns(i) ==
    /\ loop = Some(i)
    /\ tasks[i].pc = "call"
    /\ \E listing \in ServerListings :
        LET t == tasks[i]
            page == t.fetch = "page"
            result == ServiceResult(listing, t.req.severity, t.req.resource_type,
                                    t.req.resource_group, t.req.assessment_status,
                                    IF page THEN t.req.limit ELSE COUNT_LIMIT,
                                    IF page THEN t.req.offset ELSE 0, t.client[1])
            response_data == [recommendations |-> t.recommendations,
                              total_count |-> Len(result),
                              limit |-> t.req.limit, offset |-> t.req.offset]
            too_large == ValidateResponseSize(response_data)
        IN  IF page
            THEN /\ tasks' = [tasks EXCEPT ![i].recommendations = result,
                                           ![i].page_listed = Some(listing),
                                           ![i].fetch = "count",
                                           ![i].attempt = 1]
                 /\ loop' = loop
            ELSE /\ tasks' = [tasks EXCEPT
                        ![i].listed = Some(listing),
                        ![i].exc = too_large,
                        ![i].response =
                            IF IsNone(too_large)
                            THEN Some(Response(Some(200), response_data))
                            ELSE Some(ClassifiedResponse(too_large[1])),
                        ![i].pc = "responded"]
                 /\ loop' = None
    /\ statistics' = [attempt_number |-> tasks[i].attempt]
    /\ UNCHANGED singlevars

\* an attempt of the running request in which the provider raises: tenacity
\* goes to sleep on the loop's thread, or the exception leaves the service call
TaskCallFails(i) ==
    /\ loop = Some(i)
    /\ tasks[i].pc = "call"
    /\ \E e \in ServerErrors :
        IF RetryIf(e) /\ ~Stop(tasks[i].attempt)
        THEN /\ tasks' = [tasks EXCEPT ![i].pc = "sleep"]
             /\ loop' = loop
        ELSE /\ tasks' = [tasks EXCEPT ![i].exc = Some(e),
                                       ![i].response = Some(ClassifiedResponse(e)),
                                       ![i].pc = "responded"]
             /\ loop' = None
    /\ statistics' = [attempt_number |-> tasks[i].attempt]
    /\ UNCHANGED singlevars

\* time.sleep returns and the next attempt starts
TaskBackoffElapses(i) ==
    /\ loop = Some(i)
    /\ tasks[i].pc = "sleep"
    /\ tasks' = [tasks EXCEPT ![i].pc = "call", ![i].attempt = @ + 1]
    /\ UNCHANGED <<loop, statistics, singlevars>>

\* any step of request i
TaskRuns(i) ==
    \/ TaskStarts(i)
    \/ TaskCallReturns(i)
    \/ TaskCallFails(i)
    \/ TaskBackoffElapses(i)

ServerNext ==
    \/ \E i \in TaskIds : TaskStarts(i)
    \/ \E i \in TaskIds : TaskCallReturns(i)
    \/ \E i \in TaskIds : TaskCallFails(i)
    \/ \E i \in TaskIds : TaskBackoffElapses(i)

SpecServer == ServerInit /\ [][ServerNext]_vars

(***************************************************************************)
(* Properties.                                                             *)
(***************************************************************************)
Responded == pc = "responded" /\ ~IsNone(response)

Succeeded == Responded /\ response[1].status_code = Some(200)

\* the predicates of the four filters, one record at a time
SatisfiesSeverity(a, severities) ==
    HasAttr(a.properties, "severity") /\ a.properties.severity \in ToSet(severities)

\* text occurs in whole, as consecutive characters
OccursIn(text, whole) ==
    \E i \in 1..Len(whole) :
        /\ i + Len(text) - 1 <= Len(whole)
        /\ \A k \in 1..Len(text) : whole[i + k - 1] = text[k]

SatisfiesResourceType(a, resource_type) ==
    /\ HasAttr(a.properties, "resource_details")
    /\ OccursIn(resource_type, a.properties.resource_details.id)

SatisfiesResourceGroup(a, resource_group) ==
    /\ HasAttr(a.properties, "resource_details")
    /\ OccursIn(<<"/">> \o SEG_resourceGroups \o <<"/">> \o resource_group \o <<"/">>,
                a.properties.resource_details.id)

SatisfiesAssessmentStatus(a, statuses) ==
    HasAttr(a.properties, "status") /\ a.properties.status.code \in ToSet(statuses)

\* a satisfies every filter that p supplies
SatisfiesSupplied(a, p) ==
    /\ Len(p.severity) > 0 => SatisfiesSeverity(a, p.severity)
    /\ Len(p.resource_type) > 0 => SatisfiesResourceType(a, p.resource_type)
    /\ Len(p.resource_group) > 0 => SatisfiesResourceGroup(a, p.resource_group)
    /\ Len(p.assessment_status) > 0 => SatisfiesAssessmentStatus(a, p.assessment_status)

\* C1: a success response's total_count is the number of records of the
\* provider's listing (the one the count fetch read) that satisfy every supplied
\* filter, whatever the limit and the offset of the request are.
TotalCountIsFilteredCount ==
    Succeeded =>
        response[1].content.total_count =
            Cardinality({i \in DOMAIN listed[1] : SatisfiesSupplied(listed[1][i], req)})

\* a success whose count is neither the listing's length nor the page's length
TotalCountWitness ==
    /\ Succeeded
    /\ req.offset > 0
    /\ response[1].content.total_count < Len(listed[1])
    /\ response[1].content.total_count > Len(response[1].content.recommendations)

\* the four filters applied one after the other in the given order
RECURSIVE ChainInOrder(_, _, _)
ChainInOrder(order, assessments, p) ==
    IF Len(order) = 0 THEN assessments
    ELSE LET k == Head(order)
             next ==
                IF k = 1 /\ Len(p.severity) > 0
                THEN FilterBySeverity(assessments, p.severity)
                ELSE IF k = 2 /\ Len(p.resource_type) > 0
                THEN FilterByResourceType(assessments, p.resource_type)
                ELSE IF k = 3 /\ Len(p.resource_group) > 0
                THEN FilterByResourceGroup(assessments, p.resource_group)
                ELSE IF k = 4 /\ Len(p.assessment_status) > 0
                THEN FilterByAssessmentStatus(assessments, p.assessment_status)
                ELSE assessments
         IN  ChainInOrder(Tail(order), next, p)

\* C2: the filter chain returns the records that satisfy every supplied filter,
\* in their order and none missing (so never more than it was given), and
\* applying the filters in any other order gives the same list.
FilterChainExact ==
    (call.op = "filters" /\ ~IsNone(ret)) =>
        /\ Len(ret[1]) <= Len(call.assessments)
        /\ ret[1] = SelectSeq(call.assessments, LAMBDA a : SatisfiesSupplied(a, call))
        /\ \A order \in Permutations(1..4) :
            ChainInOrder(order, call.assessments, call) = ret[1]

\* three filters supplied, a two-valued severity set matched by both of its
\* values, one record dropped
FilterChainWitness ==
    /\ call.op = "filters"
    /\ ~IsNone(ret)
    /\ Len(call.severity) = 2
    /\ Len(call.resource_type) > 0
    /\ Len(call.assessment_status) = 2
    /\ Len(call.assessments) = 3
    /\ Len(ret[1]) = 2
    /\ ret[1][1].properties.severity # ret[1][2].properties.severity

\* C3: _apply_pagination returns the items at offset+1 .. offset+n in their
\* order, where n = min(limit, max(0, len - offset)).
PaginationContiguous ==
    (call.op = "_apply_pagination" /\ ~IsNone(ret)) =>
        LET n == Min(call.limit, Max(0, Len(call.items) - call.offset))
        IN  /\ Len(ret[1]) = n
            /\ \A i \in 1..n : ret[1][i] = call.items[call.offset + i]
            /\ call.offset >= Len(call.items) => ret[1] = <<>>

\* a page from the middle of the list
PaginationWitness ==
    /\ call.op = "_apply_pagination"
    /\ ~IsNone(ret)
    /\ call.offset = 1
    /\ call.limit = 1
    /\ Len(call.items) = 3
    /\ ret[1] = <<call.items[2]>>

\* C4: a call that fails with an exception the policy retries on every attempt
\* makes exactly 5 attempts, never a 6th, and then raises the last attempt's own
\* exception.
RetryExhaustion ==
    /\ attempt <= 5
    /\ (pc \in {"raised", "responded"} /\ ~IsNone(outcome) /\ RetryIf(outcome[1])) =>
        /\ attempt = 5
        /\ Len(sleeps) = 4
        /\ exc = outcome

\* the fifth attempt of the page fetch failed with a 429 and that 429 is raised
RetryExhaustionWitness ==
    /\ pc = "raised"
    /\ fetch = "page"
    /\ attempt = 5
    /\ calls = 5
    /\ exc = Some(E_429)

\* C5: the wait before attempt n+1 is min(60, 2^(n-1)): 1, 2, 4, 8, never
\* decreasing and never above 60; a call that failed k times and then got an
\* answer got it on attempt k+1.
BackoffSchedule ==
    /\ \A n \in DOMAIN sleeps : sleeps[n] = Min(60, Pow2(n - 1))
    /\ \A n \in DOMAIN sleeps : sleeps[n] <= 60 /\ (n > 1 => sleeps[n - 1] <= sleeps[n])
    /\ Len(sleeps) <= 4
    /\ pc = "sleep" => Len(sleeps) = attempt
    /\ pc = "call" => Len(sleeps) = attempt - 1
    /\ Succeeded => attempt = Len(sleeps) + 1

\* the count fetch failed four times and succeeded on the fifth attempt
BackoffWitness ==
    /\ Succeeded
    /\ attempt = 5
    /\ sleeps = <<1, 2, 4, 8>>

\* C6: the policy waits only after a transient failure: a failure with status
\* 401, 403 or 404 is never followed by a backoff wait.
PermanentFailureNotRetried ==
    pc = "sleep" => outcome[1].status_code \notin {Some(401), Some(403), Some(404)}

\* the request carries a value outside the enumeration
InvalidSeverity == ToSet(req.severity) \ {"Critical", "High", "Medium", "Low"} # {}

InvalidStatus == ToSet(req.assessment_status) \ {"Healthy", "Unhealthy", "NotApplicable"} # {}

\* C7: a request with a severity or assessment_status value outside the
\* enumeration is answered 400 VALIDATION_ERROR, naming an offending parameter
\* and its valid values, with no client constructed and no provider call made.
ValidationBeforeProvider ==
    ((InvalidSeverity \/ InvalidStatus) /\ pc # "validate") =>
        /\ Responded
        /\ response[1].status_code = Some(400)
        /\ response[1].content.error_code = "VALIDATION_ERROR"
        /\ \/ /\ InvalidSeverity
              /\ response[1].content.details.parameter = "severity"
              /\ response[1].content.details.valid_values =
                    {"Critical", "High", "Medium", "Low"}
           \/ /\ InvalidStatus
              /\ response[1].content.details.parameter = "assessment_status"
              /\ response[1].content.details.valid_values =
                    {"Healthy", "Unhealthy", "NotApplicable"}
        /\ calls = 0
        /\ IsNone(client)

\* a request rejected for its assessment_status alone
ValidationWitness ==
    /\ Responded
    /\ ~InvalidSeverity
    /\ InvalidStatus
    /\ response[1].content.details.parameter = "assessment_status"
    /\ response[1].content.details.provided_value = {"Bogus"}

\* the error kind the endpoint is to give a provider status code
KindOfStatus(status) ==
    IF status = 401 THEN "AUTHENTICATION_FAILED"
    ELSE IF status = 403 THEN "PERMISSION_DENIED"
    ELSE IF status = 404 THEN "RESOURCE_NOT_FOUND"
    ELSE "RATE_LIMIT_EXCEEDED"

\* the request ended with the provider failure exc
ProviderFailed ==
    /\ Responded
    /\ ~IsNone(exc)
    /\ exc[1].cls \in {"HttpResponseError", "ClientAuthenticationError",
                       "ResourceNotFoundError"}

\* C8: a provider failure with status 401, 403, 404 or 429 is answered with that
\* HTTP status and the error kind of that status.
ProviderStatusMapped ==
    \A status \in {401, 403, 404, 429} :
        (ProviderFailed /\ exc[1].status_code = Some(status)) =>
            /\ response[1].status_code = Some(status)
            /\ response[1].content.error_code = KindOfStatus(status)

\* the count fetch ended with a 404 after the page fetch had succeeded
ProviderStatusWitness ==
    /\ ProviderFailed
    /\ fetch = "count"
    /\ exc[1].status_code = Some(404)
    /\ response[1].content.error_code = "RESOURCE_NOT_FOUND"

ErrorKinds ==
    {"VALIDATION_ERROR", "AUTHENTICATION_FAILED", "PERMISSION_DENIED", "RESOURCE_NOT_FOUND",
     "RATE_LIMIT_EXCEEDED", "RESPONSE_TOO_LARGE", "AZURE_API_ERROR", "INTERNAL_SERVER_ERROR"}

RetryAfterHintIncluded ==
    (ProviderFailed
        /\ response[1].content.error_code = "RATE_LIMIT_EXCEEDED"
        /\ ~IsNone(exc[1].retry_after)) =>
            /\ "retry_after" \in DOMAIN response[1].content.details
            /\ response[1].content.details.retry_after = exc[1].retry_after[1]

\* C11: a provider failure with any other status code (400, 409, 500, 503, ...)
\* is answered with that HTTP status and the provider-error kind AZURE_API_ERROR.
ProviderErrorPassedThrough ==
    (ProviderFailed
        /\ ~IsNone(exc[1].status_code)
        /\ exc[1].status_code[1] \notin {401, 403, 404, 429}) =>
            /\ response[1].status_code = exc[1].status_code
            /\ response[1].content.error_code = "AZURE_API_ERROR"

\* C12: the body sent with a 200 is shorter than 1,048,576 bytes.
SuccessPayloadBelowCeiling ==
    Succeeded => RenderedSize(response[1].content) < 1048576

\* a success whose payload the guard measured at exactly the ceiling
SuccessPayloadWitness ==
    /\ Succeeded
    /\ SerializedSize(response[1].content) = 1048576
    /\ Len(response[1].content.recommendations) = 2

\* C13: validate_response_size returns, changing nothing, for a payload of at
\* most 1,048,576 serialized bytes, and for one of n > 1,048,576 bytes raises
\* ResponseTooLargeError with actual_size n and max_size 1,048,576.
SizeGuardBoundary ==
    (call.op = "validate_response_size" /\ ~IsNone(ret)) =>
        LET n == SerializedSize(call.data)
        IN  /\ n <= 1048576 => IsNone(ret[1])
            /\ n > 1048576 =>
                /\ ~IsNone(ret[1])
                /\ ret[1][1].cls = "ResponseTooLargeError"
                /\ ret[1][1].actual_size = n
                /\ ret[1][1].max_size = 1048576
            /\ pc = "idle" /\ calls = 0 /\ IsNone(exc) /\ IsNone(response)
            /\ recommendations = <<>>

\* a payload of exactly 1,048,576 bytes was accepted
SizeGuardWitness ==
    /\ call.op = "validate_response_size"
    /\ ~IsNone(ret)
    /\ SerializedSize(call.data) = 1048576
    /\ IsNone(ret[1])

\* C14: while a request is in a backoff wait, every other unfinished request
\* can take its next step.
BackoffSuspendsOnlyItsRequest ==
    \A i, j \in TaskIds :
        (i # j /\ tasks[i].pc = "sleep" /\ tasks[j].pc # "responded") =>
            ENABLED TaskRuns(j)

\* what a request r is answered with when it runs alone: a function of the
\* request, of AZURE_SUBSCRIPTION_ID, and of what the provider gave it (the
\* listing of the page fetch, the listing of the count fetch, the exception)
ExpectedResponse(r, env, page_listing, count_listing, e) ==
    LET failure == ValidationFailure(r.severity, r.assessment_status)
        sub == IF ~IsNone(r.subscription_id) /\ Len(r.subscription_id[1]) > 0
               THEN r.subscription_id ELSE env
    IN  IF ~IsNone(failure) THEN failure[1]
        ELSE IF IsNone(sub)
        THEN HandleExceptionResponse(Exc("ValueError", None, None, 0))
        ELSE IF ~IsNone(e) /\ IsHttpResponseError(e[1]) THEN LocalErrorResponse(e[1])
        ELSE IF ~IsNone(e) /\ e[1].cls # "ResponseTooLargeError"
        THEN HandleExceptionResponse(e[1])
        ELSE LET data ==
                    [recommendations |->
                        ApplyPagination(
                            ParseAll(ApplyFilters(page_listing[1], r.severity,
                                                  r.resource_type, r.resource_group,
                                                  r.assessment_status), sub[1]),
                            r.limit, r.offset),
                     total_count |->
                        Len(ApplyFilters(count_listing[1], r.severity, r.resource_type,
                                         r.resource_group, r.assessment_status)),
                     limit |-> r.limit,
                     offset |-> r.offset]
             IN  IF SerializedSize(data) > 1048576
                 THEN HandleExceptionResponse(ResponseTooLargeError(SerializedSize(data)))
                 ELSE Response(Some(200), data)

\* C15: every request of the server is answered as it would be had it run
\* alone with the same provider answers, with a client of its own, and a step
\* never changes the locals of two requests.
RequestsIndependent ==
    /\ [](\A i \in DOMAIN tasks :
            /\ ~IsNone(tasks[i].client) => tasks[i].client =
                    ( IF ~IsNone(tasks[i].req.subscription_id)
                      THEN tasks[i].req.subscription_id ELSE env_subscription_id )
            /\ tasks[i].pc = "responded" =>
                    tasks[i].response[1] =
                        ExpectedResponse(tasks[i].req, env_subscription_id,
                                         tasks[i].page_listed, tasks[i].listed,
                                         tasks[i].exc))
    /\ [][\A i, j \in DOMAIN tasks :
            i # j => (tasks'[i] = tasks[i] \/ tasks'[j] = tasks[j])]_vars

\* two requests for different subscriptions, the first answered with a record
\* while the second was waiting, the second answered 429 after five attempts
RequestsIndependentWitness ==
    /\ DOMAIN tasks = 1..2
    /\ tasks[1].client # tasks[2].client
    /\ tasks[1].pc = "responded"
    /\ tasks[2].pc = "responded"
    /\ tasks[1].response[1].status_code = Some(200)
    /\ Len(tasks[1].response[1].content.recommendations) = 1
    /\ tasks[2].response[1].status_code = Some(429)
    /\ tasks[2].attempt = 5

\* C16: every recommendation of a success response satisfies the constraints
\* of the data model.
DataModelInvariant ==
    Succeeded =>
        \A k \in DOMAIN response[1].content.recommendations :
            RecommendationValid(response[1].content.recommendations[k])

\* C17: the resource-type filter keeps exactly the records whose resource id
\* contains the supplied type, letter case ignored.
ResourceTypeFilterIgnoresCase ==
    (call.op = "filters" /\ ~IsNone(ret)
        /\ Len(call.resource_type) > 0 /\ Len(call.severity) = 0
        /\ Len(call.resource_group) = 0 /\ Len(call.assessment_status) = 0) =>
            ret[1] = SelectSeq(call.assessments,
                        LAMBDA a : /\ HasAttr(a.properties, "resource_details")
                                   /\ OccursIn(Lower(call.resource_type),
                                               Lower(a.properties.resource_details.id)))

\* C18: the response is the one a request with any other assignment_status,
\* given the same provider answers, is answered with.
AssignmentStatusNotEnforced ==
    Responded =>
        \A s \in {"assigned", "unassigned", "overdue", "all"} :
            response[1] = ExpectedResponse([req EXCEPT !.assignment_status = s],
                                           env_subscription_id, page_listed, listed, exc)

\* a request for assigned recommendations answered with a record that has no
\* assignee
AssignmentStatusWitness ==
    /\ Succeeded
    /\ req.assignment_status = "assigned"
    /\ Len(response[1].content.recommendations) = 1
    /\ IsNone(response[1].content.recommendations[1].assigned_user)

\* lowercase letters, digits and single underscores
IsLowerUnderscore(text) ==
    /\ \A i \in DOMAIN text : IsLowerOrDigit(text[i]) \/ text[i] = "_"
    /\ \A i \in DOMAIN text : (i > 1 /\ text[i] = "_") => text[i - 1] # "_"

\* C19: to_snake_case applied to its own result gives that result again, and a
\* text already in lowercase-underscore form is returned as it is.
SnakeCaseIdempotent ==
    (call.op = "to_snake_case" /\ ~IsNone(ret)) =>
        /\ ToSnakeCase(ret[1]) = ret[1]
        /\ IsLowerUnderscore(call.text) => ret[1] = call.text

\* "aBa1B" became "a_ba1_b"
SnakeCaseWitness ==
    /\ call.op = "to_snake_case"
    /\ call.text = <<"a", "B", "a", "1", "B">>
    /\ ret = Some(<<"a", "_", "b", "a", "1", "_", "b">>)

\* the payload the size guard is given
PagePayload ==
    [recommendations |-> recommendations, total_count |-> 0,
     limit |-> req.limit, offset |-> req.offset]

\* C20: the page of a success response is the pagination of the parsed records
\* that passed the filters, filtered before parsed before paginated; the size
\* guard measures the page's payload alone, whatever the size of the listing.
PipelineOrder ==
    /\ Succeeded =>
        LET filtered == SelectSeq(page_listed[1], LAMBDA a : SatisfiesSupplied(a, req))
            parsed == [k \in DOMAIN filtered |-> ParseTable[filtered[k], client[1]]]
            page == PySlice(parsed, req.offset, req.offset + req.limit)
        IN  /\ response[1].content.recommendations = page
            /\ SerializedSize(response[1].content) <= 1048576
    /\ (Responded /\ ~IsNone(exc) /\ exc[1].cls = "ResponseTooLargeError") =>
        /\ exc[1].actual_size = SerializedSize(PagePayload)
        /\ exc[1].actual_size > 1048576
        /\ response[1].status_code = Some(413)

\* a success from a listing whose records together serialize above the ceiling
PipelineWitness ==
    /\ Succeeded
    /\ Len(response[1].content.recommendations) = 1
    /\ SerializedSize([recommendations |-> ParseAll(page_listed[1], client[1])]) > 1048576

\* handle_exception was called with exc and has returned
Handled ==
    /\ call.op = "handle_exception"
    /\ ~IsNone(ret)

\* C21: the classifier looks at the size-guard condition first, then at the
\* provider's status code, then at the category of the exception: a provider
\* failure of the authentication or not-found category that carries status 403
\* or 429 gets the kind and the HTTP status of that status code, and a size-guard
\* failure gets RESPONSE_TOO_LARGE with 413.
ClassifierPriorityOrder ==
    Handled =>
        /\ call.exc.cls = "ResponseTooLargeError" =>
              /\ ret[1].status_code = Some(413)
              /\ ret[1].content.error_code = "RESPONSE_TOO_LARGE"
        /\ \A status \in {403, 429} :
              (/\ call.exc.cls \in {"ClientAuthenticationError", "ResourceNotFoundError"}
               /\ call.exc.status_code = Some(status)) =>
                  /\ ret[1].status_code = Some(status)
                  /\ ret[1].content.error_code = KindOfStatus(status)

\* text with an underscore put before each of the positions pos, from position k on
RECURSIVE InsertBefore(_, _, _)
InsertBefore(text, pos, k) ==
    IF k > Len(text) THEN <<>>
    ELSE (IF k \in pos THEN <<"_">> ELSE <<>>) \o <<text[k]>> \o InsertBefore(text, pos, k + 1)

\* an uppercase letter right after a lowercase letter or a digit
AfterLowerOrDigit(text) ==
    {k \in 2..Len(text) : IsUpper(text[k]) /\ IsLowerOrDigit(text[k - 1])}

\* an uppercase letter that is not the first character and starts a word: a
\* lowercase letter follows it
WordStarts(text) ==
    {k \in 2..Len(text) : IsUpper(text[k]) /\ k + 1 <= Len(text) /\ IsLower(text[k + 1])}

SnakeCased ==
    /\ call.op = "to_snake_case"
    /\ ~IsNone(ret)

\* C22: to_snake_case puts one underscore before an uppercase letter that is
\* not the first character when a lowercase letter or a digit precedes it, or
\* when a lowercase letter follows it (whatever precedes it: an uppercase
\* letter, a hyphen, an underscore), puts nothing anywhere else, and lowercases
\* the result; the hyphens and underscores of the text are kept.
SnakeCaseInsertions ==
    SnakeCased =>
        ret[1] = Lower(InsertBefore(call.text,
                                    AfterLowerOrDigit(call.text) \cup WordStarts(call.text), 1))

\* "B-Ba" became "b-_ba": an underscore next to a hyphen
SnakeCaseInsertionsWitness ==
    /\ SnakeCased
    /\ call.text = <<"B", "-", "B", "a">>
    /\ ret = Some(<<"b", "-", "_", "b", "a">>)

\* C22 as stated: an underscore only between a lowercase letter or a digit and
\* an uppercase letter, and none next to a hyphen or an underscore.
SnakeCaseInsertsOnlyAfterLowerOrDigit ==
    SnakeCased =>
        ret[1] = Lower(InsertBefore(call.text, AfterLowerOrDigit(call.text), 1))

\* the value the transformation is to give: string keys renamed, any other key
\* kept as it is, lists element by element, every other value as it is
RECURSIVE KeysRenamed(_), ItemsRenamed(_, _)
ItemsRenamed(items, acc) ==
    IF Len(items) = 0 THEN acc
    ELSE LET key == Head(items)[1]
             renamed == IF IsStr(key) THEN StrKey(ToSnakeCase(key.str)) ELSE key
         IN  ItemsRenamed(Tail(items), SetItem(acc, renamed, KeysRenamed(Head(items)[2])))

KeysRenamed(data) ==
    IF data.t = "dict" THEN PyDict(ItemsRenamed(data.items, <<>>))
    ELSE IF data.t = "list" THEN PyList([i \in DOMAIN data.elems |-> KeysRenamed(data.elems[i])])
    ELSE data

\* C23: transform_keys_to_snake_case returns, for any nested value, the value
\* with its string keys renamed and every other key kept (a dict with an
\* integer key is transformed without an error), lists of the same length and
\* order, and values that are no dict and no list unchanged.
TransformKeepsNonStringKeys ==
    (call.op = "transform_keys_to_snake_case" /\ ~IsNone(ret)) =>
        /\ ~IsRaised(ret[1])
        /\ ret[1] = KeysRenamed(call.data)

\* the segment after the first "subscriptions" segment, None when that segment
\* is missing or last, or when the segment after it is empty
SegmentAfterSubscriptions(assessment_id) ==
    LET parts == Split(assessment_id, "/")
        at == {i \in DOMAIN parts : parts[i] = SEG_subscriptions}
    IN  IF at = {} THEN None
        ELSE LET first == CHOOSE i \in at : \A j \in at : i <= j
             IN  IF first + 1 > Len(parts) \/ Len(parts[first + 1]) = 0 THEN None
                 ELSE Some(parts[first + 1])

\* C24: the subscription id parsed from a record identifier is the segment after
\* the first "subscriptions" segment, and the client's subscription id when that
\* segment is missing, is the last one, or is followed by an empty segment.
SubscriptionIdOrFallback ==
    (call.op = "_extract_subscription_id" /\ ~IsNone(ret)) =>
        LET segment == SegmentAfterSubscriptions(call.assessment_id)
        IN  ret[1] = IF IsNone(segment) THEN call.subscription_id ELSE segment[1]

\* C25: the resource name is the last "/"-delimited segment of the path, and
\* "Unknown" when the path is empty.
ResourceNameOrUnknown ==
    (call.op = "_extract_resource_name" /\ ~IsNone(ret)) =>
        LET parts == Split(call.resource_id, "/")
        IN  ret[1] = IF Len(call.resource_id) = 0 THEN STR_Unknown ELSE parts[Len(parts)]

\* a fetch has used up its attempts: the last of them failed with an error
\* tenacity retries
Exhausted ==
    /\ pc \in {"raised", "responded"}
    /\ ~IsNone(outcome)
    /\ RetryIf(outcome[1])

\* C26: a request makes two separately retried fetches: at most 10 provider
\* calls in all, exactly 2 in a success when no call failed (2 plus the failed
\* calls in general), the count fetch only after the page fetch has returned;
\* a fetch that uses up its 5 attempts ends the request with that error, never
\* with a success.
TwoRetriedFetches ==
    /\ calls <= 10
    /\ fetch = "count" => ~IsNone(page_listed)
    /\ ~IsNone(listed) => ~IsNone(page_listed)
    /\ Succeeded =>
          /\ ~IsNone(page_listed) /\ ~IsNone(listed)
          /\ calls = 2 + failed
          /\ failed <= 2 * (STOP_AFTER_ATTEMPT - 1)
    /\ Exhausted =>
          /\ attempt = STOP_AFTER_ATTEMPT
          /\ exc = outcome
          /\ IsNone(listed)
          /\ fetch = "page" => (IsNone(page_listed) /\ calls = STOP_AFTER_ATTEMPT)
          /\ Responded => (~Succeeded /\ response = Some(LocalErrorResponse(outcome[1])))

\* both fetches got their answer on the fifth attempt: ten calls, eight failed
TwoRetriedFetchesWitness ==
    /\ Succeeded
    /\ calls = 10
    /\ failed = 8
    /\ attempt = STOP_AFTER_ATTEMPT

\* C27: in every success response the page is consistent with the count,
\* whatever the provider lists to the two fetches: no more recommendations than
\* limit, no more than total_count, and offset plus their number at most
\* total_count when there are any.
PageConsistentWithCount ==
    Succeeded =>
        LET data == response[1].content
            n == Len(data.recommendations)
        IN  /\ n <= data.limit
            /\ n <= data.total_count
            /\ n > 0 => data.offset + n <= data.total_count

\* the filter chain was called with a severity set and no other filter
SeverityFiltered ==
    /\ call.op = "filters"
    /\ ~IsNone(ret)
    /\ Len(call.severity) > 0
    /\ Len(call.resource_type) = 0
    /\ Len(call.resource_group) = 0
    /\ Len(call.assessment_status) = 0

\* C28: a record survives the severity filter exactly when the severity the
\* parser reports for it is one of the severities asked for; this includes the
\* record without a severity field, which the parser reports as "Medium".
SeverityFilterAgreesWithParser ==
    SeverityFiltered =>
        \A i \in DOMAIN call.assessments :
            LET a == call.assessments[i]
            IN  a \in UnitAssessments \ {A_NORES, A_NOSTATUS} =>
                    (InList(a, ret[1]) <=> InList(ParseTable[a, SUB_ENV].severity, call.severity))

\* C29: for every provider failure (an HttpResponseError or a subclass, with a
\* status code or none) the global handler gives the error kind and the HTTP
\* status the endpoint's local handler gives.
ClassifiersAgree ==
    (Handled /\ IsHttpResponseError(call.exc)) =>
        /\ ret[1].status_code = LocalErrorResponse(call.exc).status_code
        /\ ret[1].content.error_code = LocalErrorResponse(call.exc).content.error_code

\* C30: every request comes to a response, given that each provider call
\* returns or fails and each backoff wait ends: the retry loop does not go on
\* for ever; the response, once given, is the only one, and no provider call
\* follows it.
RequestCompletesOnce ==
    /\ <>Responded
    /\ [][~IsNone(response) => (response' = response /\ calls' = calls)]_vars
    /\ [](~IsNone(response) => Responded)

\* the request was answered after both fetches had to wait through backoffs
RequestCompletesWitness ==
    /\ Responded
    /\ failed = 8
    /\ calls = 10
    /\ Len(sleeps) = STOP_AFTER_ATTEMPT - 1
====
